---- MODULE Spec2Model ----
(***************************************************************************)
(* Model of find_duplicate_files.py: the tree scan, the generic grouper,   *)
(* the size/checksum (hash) pipeline and the pairwise-comparison pipeline, *)
(* run as main() runs them: scan_files first, then one of the pipelines on *)
(* the scanned list.  Between the scan and the pipeline the environment    *)
(* may delete scanned files.                                               *)
(*                                                                         *)
(* A file's content is a sequence of chunks; every chunk but the last      *)
(* stands for a block of exactly BUFSIZE bytes, so that read(BUFSIZE)      *)
(* returns the chunks one by one and then the empty string.                *)
(***************************************************************************)
EXTENDS Integers, Sequences, FiniteSets, TLC

VARIABLES fs, pc, method, file_path_names, by_size, result, work, groups, iters

vars == <<fs, pc, method, file_path_names, by_size, result, work, groups, iters>>

BUFSIZE == 8 * 1024

\* Longest file content of the model, in chunks.
MaxChunks == 2

-----------------------------------------------------------------------------
(* The filesystem *)

Root == <<"r">>

\* join(root, f)
join(root, f) == Append(root, f)

PathA == join(Root, "a")
PathB == join(Root, "b")
PathE == join(Root, "e")
SubDir == join(Root, "d")
PathC == join(SubDir, "c")

LeafPaths == {PathA, PathB, PathE, PathC}
AllPaths == {Root, SubDir} \cup LeafPaths

FullChunk == [len |-> BUFSIZE, val |-> 0]
PartChunks == {[len |-> 1, val |-> 0], [len |-> 1, val |-> 1]}

\* File contents: full chunks followed by at most one partial chunk.
Contents ==
    LET Fulls(n) == [i \in 1..n |-> FullChunk]
    IN  {Fulls(n) : n \in 0..MaxChunks}
          \cup {Append(Fulls(n), p) : n \in 0..(MaxChunks - 1), p \in PartChunks}

Empty == << >>

Absent == [kind |-> "absent", content |-> Empty, readable |-> FALSE, target |-> Root]
Fifo == [kind |-> "fifo", content |-> Empty, readable |-> TRUE, target |-> Root]
Dir(r) == [kind |-> "dir", content |-> Empty, readable |-> r, target |-> Root]
Reg(c, r) == [kind |-> "reg", content |-> c, readable |-> r, target |-> Root]
Link(t) == [kind |-> "link", content |-> Empty, readable |-> TRUE, target |-> t]

\* A file that cannot be opened shows the program its size only: its content
\* is taken with every chunk's value 0.
Zeroed(c) == \A i \in 1..Len(c) : c[i].val = 0

Readable == {Reg(c, TRUE) : c \in Contents}
Unreadable == {Reg(c, FALSE) : c \in {x \in Contents : Zeroed(x)}}

\* What each path may be.  Every leaf path may be missing or a readable
\* regular file; one of them may also be a file that cannot be opened, one a
\* FIFO or a symbolic link to a file, one a symbolic link to a file.  The
\* subdirectory path may be missing, a directory, or a symbolic link to the
\* root directory.
NodesOf(p) ==
    CASE p = Root -> {Absent, Dir(TRUE), Dir(FALSE)}
      [] p = SubDir -> {Absent, Dir(TRUE), Dir(FALSE), Link(Root)}
      [] p = PathA -> {Absent} \cup Readable
      [] p = PathB -> {Absent} \cup Readable \cup Unreadable
      [] p = PathE -> {Absent, Fifo, Link(PathA)} \cup Readable
      [] p = PathC -> {Absent, Link(PathA)} \cup Readable

Parent(p) == SubSeq(p, 1, Len(p) - 1)

\* An entry is modelled only inside a directory that can be listed, and a
\* link points at an entry that is not itself a link.
WellFormed(f) ==
    /\ \A p \in AllPaths \ {Root} :
          f[p].kind # "absent" => f[Parent(p)] = Dir(TRUE)
    /\ \A p \in AllPaths :
          f[p].kind = "link" => f[f[p].target].kind # "link"

MkFs(r, d, a, b, e, c) ==
    (Root :> r) @@ (SubDir :> d) @@ (PathA :> a) @@ (PathB :> b)
      @@ (PathE :> e) @@ (PathC :> c)

\* fs is one of the filesystems of the model.
IsFileSystem(f) ==
    \E r \in NodesOf(Root), d \in NodesOf(SubDir) :
       \E a \in NodesOf(PathA), b \in NodesOf(PathB), e \in NodesOf(PathE),
          c \in NodesOf(PathC) :
          /\ f = MkFs(r, d, a, b, e, c)
          /\ WellFormed(f)

islink(f, p) == f[p].kind = "link"

\* The entry a path names once a symbolic link is followed.
Resolve(f, p) == IF islink(f, p) THEN f[p].target ELSE p

RECURSIVE SumLen(_)
SumLen(c) == IF c = Empty THEN 0 ELSE Head(c).len + SumLen(Tail(c))

\* stat(p): follows links; fails when nothing is there.  S_IFMT(st_mode) is
\* the kind of the entry, st_size the byte length of a regular file.
stat(f, p) ==
    LET n == f[Resolve(f, p)]
    IN  [raised |-> n.kind = "absent",
         st_mode |-> n.kind,
         st_size |-> IF n.kind = "reg" THEN SumLen(n.content) ELSE 0]

\* open(p, 'rb') raises OSError: nothing there, no permission, a directory.
OpenFails(f, p) ==
    LET n == f[Resolve(f, p)]
    IN  n.kind \in {"absent", "dir"} \/ ~n.readable

\* fp.read(): the whole content.
ReadAll(f, p) == f[Resolve(f, p)].content

\* The k-th fp.read(bufsize) of a file: its k-th chunk, then b''.
ReadChunk(f, p, k) ==
    LET data == ReadAll(f, p)
    IN  IF k <= Len(data) THEN <<data[k]>> ELSE << >>

-----------------------------------------------------------------------------
(* scan_files *)

\* scandir orders: the order in which a directory lists its entries.  The
\* names that can be files of the root directory come in every order; the
\* places of "d" and "c", alone of their kind in their directory, change
\* nothing.
RootFileNames == {"a", "b", "e"}
ScanOrders ==
    {o \o <<"c", "d">> :
        o \in {x \in [1..Cardinality(RootFileNames) -> RootFileNames] :
                  \A i, j \in 1..Cardinality(RootFileNames) : x[i] = x[j] => i = j}}

RECURSIVE Flatten(_)
Flatten(ss) == IF ss = << >> THEN << >> ELSE Head(ss) \o Flatten(Tail(ss))

\* scandir(top) succeeds: top is a directory that can be listed.
CanList(f, top) ==
    LET n == f[Resolve(f, top)] IN n.kind = "dir" /\ n.readable

\* entry.is_dir(), which follows symbolic links.
is_dir(f, p) == f[Resolve(f, p)].kind = "dir"

\* os.walk(top), top-down, onerror=None, followlinks=False, as the list
\* [join(root, f) for root, _, files in walk(top) for f in files]: an error
\* of scandir ends that directory's walk silently; a symbolic link to a
\* directory is listed among the directories and not descended into.
RECURSIVE walk(_, _, _)
walk(f, top, ord) ==
    IF ~CanList(f, top) THEN << >>
    ELSE LET entries == SelectSeq(ord, LAMBDA n :
                            /\ join(top, n) \in AllPaths
                            /\ f[join(top, n)].kind # "absent")
             dirs == SelectSeq(entries, LAMBDA n : is_dir(f, join(top, n)))
             files == SelectSeq(entries, LAMBDA n : ~is_dir(f, join(top, n)))
         IN  [i \in 1..Len(files) |-> join(top, files[i])]
               \o Flatten([i \in 1..Len(dirs) |->
                      IF islink(f, join(top, dirs[i])) THEN << >>
                      ELSE walk(f, join(top, dirs[i]), ord)])

\* As scan_files, but with the error of listing the root propagated.
scan_files_raising(f, path, ord) ==
    IF ~CanList(f, path) THEN [raised |-> TRUE, files |-> << >>]
    ELSE [raised |-> FALSE,
          files |-> SelectSeq(walk(f, path, ord), LAMBDA x : ~islink(f, x))]

\* As scan_files, but without the islink filter.
scan_files_nofilter(f, path, ord) ==
    [raised |-> FALSE, files |-> walk(f, path, ord)]

\* scan_files(path); the path is given absolute and normalised, which
\* abspath(expanduser(path)) returns unchanged.
scan_files(f, path, ord) ==
    [raised |-> FALSE,
     files |-> SelectSeq(walk(f, path, ord), LAMBDA x : ~islink(f, x))]

-----------------------------------------------------------------------------
(* group_files and the hash pipeline *)

\* A criterion: what func(filename) gives, or the error it raises.
IntCrit(n) == [raised |-> FALSE, kind |-> "int", int |-> n, str |-> << >>]
StrCrit(s) == [raised |-> FALSE, kind |-> "str", int |-> 0, str |-> s]
NoneCrit == [raised |-> FALSE, kind |-> "none", int |-> 0, str |-> << >>]
RaisedCrit == [raised |-> TRUE, kind |-> "none", int |-> 0, str |-> << >>]

\* Python's truth value of a criterion: None, 0 and '' are false.
Truthy(c) ==
    CASE c.kind = "none" -> FALSE
      [] c.kind = "int" -> c.int # 0
      [] c.kind = "str" -> c.str # << >>

\* os.path.getsize: os.stat(p).st_size, raising OSError when stat fails.
getsize(f, p) ==
    LET st == stat(f, p)
    IN  IF st.raised THEN RaisedCrit ELSE IntCrit(st.st_size)

\* md5(data).hexdigest(), taken as injective: a non-empty string that
\* determines the data.
md5(data) == <<data>>

get_file_checksum(f, p) ==
    IF OpenFails(f, p) THEN NoneCrit ELSE StrCrit(md5(ReadAll(f, p)))

\* groups.setdefault(criterion, []).append(filename), on a dict kept as the
\* sequence of its items in insertion order.
SetDefaultAppend(d, criterion, filename) ==
    IF \E i \in 1..Len(d) : d[i].key = criterion
    THEN [i \in 1..Len(d) |->
            IF d[i].key = criterion
            THEN [d[i] EXCEPT !.members = Append(@, filename)]
            ELSE d[i]]
    ELSE Append(d, [key |-> criterion, members |-> <<filename>>])

RECURSIVE GroupLoop(_, _, _, _)
GroupLoop(names, crit, i, d) ==
    IF i > Len(names) THEN d
    ELSE GroupLoop(names, crit, i + 1,
                   IF Truthy(crit[i]) THEN SetDefaultAppend(d, crit[i], names[i])
                   ELSE d)

\* As KeepGroup, but keeping singleton groups.
KeepGroupAny(group) == Len(group) > 0

\* len(group) > 1
KeepGroup(group) == Len(group) > 1

Members(d) == [i \in 1..Len(d) |-> d[i].members]

\* group_files(file_path_names, func): an error raised by func ends the call.
\* func is given as the function from the names to what func(filename) does.
group_files(names, func) ==
    LET crit == [i \in 1..Len(names) |-> func[names[i]]]
    IN  IF \E i \in 1..Len(names) : crit[i].raised
        THEN [raised |-> TRUE, groups |-> << >>]
        ELSE [raised |-> FALSE,
              groups |-> SelectSeq(Members(GroupLoop(names, crit, 1, << >>)),
                                   KeepGroup)]

group_files_by_size(f, names) ==
    group_files(names, [p \in {names[i] : i \in 1..Len(names)} |-> getsize(f, p)])

group_files_by_checksum(f, names) ==
    group_files(names, [p \in {names[i] : i \in 1..Len(names)} |->
                          get_file_checksum(f, p)])

find_duplicate_files(f, names) ==
    LET sized == group_files_by_size(f, names)
    IN  IF sized.raised THEN [raised |-> TRUE, groups |-> << >>]
        ELSE LET parts == [i \in 1..Len(sized.groups) |->
                              group_files_by_checksum(f, sized.groups[i])]
             IN  IF \E i \in 1..Len(parts) : parts[i].raised
                 THEN [raised |-> TRUE, groups |-> << >>]
                 ELSE [raised |-> FALSE,
                       groups |-> Flatten([i \in 1..Len(parts) |-> parts[i].groups])]

-----------------------------------------------------------------------------
(* compare_files and the comparison pipeline *)

S_IFREG == "reg"

\* _sig(st): (S_IFMT(st.st_mode), st.st_size)
Sig(st) == <<st.st_mode, st.st_size>>

RECURSIVE CompareFrom(_, _, _, _)
CompareFrom(f, file1, file2, k) ==
    LET b1 == ReadChunk(f, file1, k)
        b2 == ReadChunk(f, file2, k)
    IN  IF b1 # b2 THEN FALSE
        ELSE IF b1 = << >> THEN TRUE
        ELSE CompareFrom(f, file1, file2, k + 1)

\* As do_compare, but stopping at the first chunk the two files share.
do_compare_first_chunk(f, file1, file2) ==
    IF OpenFails(f, file1) \/ OpenFails(f, file2) THEN FALSE
    ELSE ReadChunk(f, file1, 1) = ReadChunk(f, file2, 1)

\* _do_compare(file1, file2)
do_compare(f, file1, file2) ==
    IF OpenFails(f, file1) \/ OpenFails(f, file2) THEN FALSE
    ELSE CompareFrom(f, file1, file2, 1)

\* compare_files(f1, f2): the value returned, or the error of stat raised.
compare_files(f, f1, f2) ==
    LET st1 == stat(f, f1)
        st2 == stat(f, f2)
    IN  IF st1.raised \/ st2.raised THEN [raised |-> TRUE, val |-> FALSE]
        ELSE IF Sig(st1)[1] # S_IFREG \/ Sig(st2)[1] # S_IFREG
             THEN [raised |-> FALSE, val |-> FALSE]
        ELSE IF Sig(st1)[2] # Sig(st2)[2] THEN [raised |-> FALSE, val |-> FALSE]
        ELSE [raised |-> FALSE, val |-> do_compare(f, f1, f2)]

Range(s) == {s[i] : i \in 1..Len(s)}

\* Lines 183-187: the group of the first path of the working list.
GroupOfCurrent(f, w) ==
    LET current == w[1]
        rest == Tail(w)
    IN  [raised |-> \E i \in 1..Len(rest) : compare_files(f, current, rest[i]).raised,
         group |-> <<current>> \o
                     SelectSeq(rest, LAMBDA x : compare_files(f, current, x).val)]

\* As Remaining, but leaving the current path in the working list.
RemainingKeepsCurrent(w, group) ==
    SelectSeq(w, LAMBDA e : e \notin Range(Tail(group)))

\* As Remaining, but removing the current path only.
RemainingDropsCurrentOnly(w, group) == Tail(w)

\* Lines 188-189: [e for e in file_path_names if e not in set(group)]
Remaining(w, group) == SelectSeq(w, LAMBDA e : e \notin Range(group))

-----------------------------------------------------------------------------
(* The program: main() *)

NoResult == [raised |-> FALSE, groups |-> << >>]

Init ==
    /\ IsFileSystem(fs)
    /\ pc = "start"
    /\ method = "none"
    /\ file_path_names = << >>
    /\ by_size = NoResult
    /\ result = NoResult
    /\ work = << >>
    /\ groups = << >>
    /\ iters = 0

\* scan_files(args.path)
ScanFiles ==
    /\ pc = "start"
    /\ \E ord \in ScanOrders :
          LET r == scan_files(fs, Root, ord)
          IN  /\ pc' = IF r.raised THEN "error" ELSE "scanned"
              /\ file_path_names' = r.files
    /\ UNCHANGED <<fs, method, by_size, result, work, groups, iters>>

\* The environment deletes a scanned file before the pipeline reads it.
Unlink ==
    /\ pc = "scanned"
    /\ \E p \in Range(file_path_names) :
          /\ fs[p].kind = "reg"
          /\ fs' = [fs EXCEPT ![p] = Absent]
    /\ UNCHANGED <<pc, method, file_path_names, by_size, result, work, groups, iters>>

\* find_duplicate_files(file_path_names)
FindDuplicateFiles ==
    /\ pc = "scanned"
    /\ method' = "hash"
    /\ by_size' = group_files_by_size(fs, file_path_names)
    /\ result' = find_duplicate_files(fs, file_path_names)
    /\ pc' = IF result'.raised THEN "error" ELSE "done"
    /\ UNCHANGED <<fs, file_path_names, work, groups, iters>>

\* find_duplicate_files_by_comparing(file_path_names): line 181
StartComparing ==
    /\ pc = "scanned"
    /\ method' = "compare"
    /\ pc' = "comparing"
    /\ work' = file_path_names
    /\ groups' = << >>
    /\ iters' = 0
    /\ UNCHANGED <<fs, file_path_names, by_size, result>>

\* One iteration of the while loop, lines 182-191.
CompareStep ==
    /\ pc = "comparing"
    /\ work # << >>
    /\ LET g == GroupOfCurrent(fs, work)
       IN  IF g.raised
           THEN /\ pc' = "error"
                /\ result' = [raised |-> TRUE, groups |-> << >>]
                /\ UNCHANGED <<work, groups, iters>>
           ELSE /\ work' = Remaining(work, g.group)
                /\ groups' = IF Len(g.group) > 1 THEN Append(groups, g.group)
                             ELSE groups
                /\ iters' = iters + 1
                /\ UNCHANGED <<pc, result>>
    /\ UNCHANGED <<fs, method, file_path_names, by_size>>

\* The loop ends and the groups are returned, line 192.
CompareReturn ==
    /\ pc = "comparing"
    /\ work = << >>
    /\ pc' = "done"
    /\ result' = [raised |-> FALSE, groups |-> groups]
    /\ UNCHANGED <<fs, method, file_path_names, by_size, work, groups, iters>>

Next ==
    \/ ScanFiles
    \/ Unlink
    \/ FindDuplicateFiles
    \/ StartComparing
    \/ CompareStep
    \/ CompareReturn

Spec == Init /\ [][Next]_vars

-----------------------------------------------------------------------------
(* Properties *)

Scanned == Range(file_path_names)

Node(p) == fs[Resolve(fs, p)]

\* p is a regular file that can be opened.
ReadableReg(p) == Node(p).kind = "reg" /\ Node(p).readable

SameContent(p, q) == Node(p).content = Node(q).content

SizeOf(p) == stat(fs, p).st_size

\* The groups of gs that hold both p and q.
GroupsWithBoth(gs, p, q) ==
    {k \in 1..Len(gs) : p \in Range(gs[k]) /\ q \in Range(gs[k])}

HashDone == pc = "done" /\ method = "hash"
CompareDone == pc = "done" /\ method = "compare"

\* Every list of groups the program has built so far.
AllGroupLists == {by_size.groups, result.groups, groups}

NoRepeats(s) == \A i, j \in 1..Len(s) : s[i] = s[j] => i = j

\* C1: when every scanned path is a readable regular file, two distinct
\* scanned paths with equal content are together in exactly one group of the
\* result, whichever pipeline produced it.
C1_EqualContentInOneGroup ==
    (pc = "done" /\ \A p \in Scanned : ReadableReg(p)) =>
        \A p, q \in Scanned :
            (p # q /\ SameContent(p, q)) =>
                Cardinality(GroupsWithBoth(result.groups, p, q)) = 1

\* C2: two paths that differ in size, or have the same size and different
\* content, are never members of the same group of either pipeline.
C2_DifferentNeverTogether ==
    \A gs \in {result.groups, groups} :
        \A k \in 1..Len(gs) : \A p, q \in Range(gs[k]) :
            (~stat(fs, p).raised /\ ~stat(fs, q).raised) =>
                ~(SizeOf(p) # SizeOf(q) \/ ~SameContent(p, q))

\* C2's case: the comparison pipeline has finished on a list that holds two
\* readable files of one size whose first chunks agree and whose contents
\* differ, and it returned a group.
C2_Witness ==
    /\ CompareDone
    /\ result.groups # << >>
    /\ \E p, q \in Scanned :
          /\ ReadableReg(p) /\ ReadableReg(q)
          /\ SizeOf(p) = SizeOf(q)
          /\ ~SameContent(p, q)
          /\ ReadChunk(fs, p, 1) = ReadChunk(fs, q, 1)

\* The zero-length regular files, readable, of the scanned list.
ZeroLength == {p \in Scanned : ReadableReg(p) /\ Node(p).content = Empty}

\* C3: when the list holds two or more zero-length files, the result of
\* either pipeline has exactly one group whose members are those files.
C3_EmptyFilesOneGroup ==
    (pc = "done" /\ Cardinality(ZeroLength) >= 2) =>
        Cardinality({k \in 1..Len(result.groups) :
                        Range(result.groups[k]) = ZeroLength}) = 1

\* No two scanned paths are duplicates of each other.
AllUnique ==
    \A p, q \in Scanned :
        p # q => ~(ReadableReg(p) /\ ReadableReg(q) /\ SameContent(p, q))

\* C4: every group of group_files (by size, by checksum, the hash pipeline's
\* result) and of the comparison pipeline has at least two members, and a
\* list of one file or of files that are all unique gives an empty result.
C4_GroupsOfAtLeastTwo ==
    /\ \A gs \in AllGroupLists : \A k \in 1..Len(gs) : Len(gs[k]) >= 2
    /\ (pc = "done" /\ (Len(file_path_names) <= 1 \/ AllUnique)) =>
          result.groups = << >>

\* C4's case: the hash pipeline has returned a group, and a scanned file is
\* in none.
C4_Witness ==
    /\ HashDone
    /\ result.groups # << >>
    /\ \E p \in Scanned : \A k \in 1..Len(result.groups) : p \notin Range(result.groups[k])

\* C5: no scanned path is a symbolic link, and no symbolic link is a member
\* of a group of either pipeline.
C5_NoSymbolicLinks ==
    /\ \A p \in Scanned : ~islink(fs, p)
    /\ \A gs \in AllGroupLists :
          \A k \in 1..Len(gs) : \A p \in Range(gs[k]) : ~islink(fs, p)

\* C5's case: a pipeline returned a group of real duplicates while the tree
\* holds a symbolic link to one of the group's members.
C5_Witness ==
    /\ pc = "done"
    /\ \E k \in 1..Len(result.groups) :
          \E l \in LeafPaths :
             /\ islink(fs, l)
             /\ fs[l].target \in Range(result.groups[k])

\* The scanned paths whose size probe succeeds, in order.
Probed == SelectSeq(file_path_names, LAMBDA p : ~stat(fs, p).raised)

\* C6: when the size probe of a path fails, group_files_by_size drops the
\* path and returns the groups of the other paths; no error reaches the
\* caller.
C6_ProbeFailureDropped ==
    (method = "hash" /\ \E p \in Scanned : stat(fs, p).raised) =>
        /\ pc # "error"
        /\ ~by_size.raised
        /\ by_size.groups = group_files_by_size(fs, Probed).groups

\* C7: compare_files returns False and raises nothing when the status probe
\* of either of two paths fails, and the comparison pipeline completes.
C7_CompareProbeFailureIsFalse ==
    method = "compare" =>
        /\ pc # "error"
        /\ \A p, q \in Scanned :
              (p # q /\ (stat(fs, p).raised \/ stat(fs, q).raised)) =>
                  compare_files(fs, p, q) = [raised |-> FALSE, val |-> FALSE]

\* C8, as claimed: when the root does not exist or cannot be read, the scan
\* ends in an error and returns no list.
C8_RootFailureRaises ==
    (pc # "start" /\ ~CanList(fs, Root)) => pc = "error"

\* C8, amended: when the root does not exist or cannot be read, the scan
\* raises no error and returns the empty list.
C8_RootFailureGivesEmptyList ==
    (pc # "start" /\ ~CanList(fs, Root)) =>
        /\ pc # "error"
        /\ file_path_names = << >>

\* C8's case: the scan has returned for a root that cannot be listed.
C8_Witness == pc = "scanned" /\ ~CanList(fs, Root)

\* C9: every iteration of the working-list loop removes the current first
\* path, so the list gets strictly shorter; the iterations made and the
\* paths left never exceed the length of the input; and the loop returns
\* with an empty working list after at most as many iterations as the input
\* has paths.
C9_LoopTerminates ==
    /\ (pc = "comparing" /\ work # << >>) =>
          LET left == Remaining(work, GroupOfCurrent(fs, work).group)
          IN  Len(left) < Len(work) /\ work[1] \notin Range(left)
    /\ method = "compare" => iters + Len(work) <= Len(file_path_names)
    /\ CompareDone => work = << >> /\ iters <= Len(file_path_names)

\* C9's case: the loop has ended after as many iterations as the list has
\* paths, the list holding three or more.
C9_Witness ==
    /\ CompareDone
    /\ Len(file_path_names) >= 3
    /\ iters = Len(file_path_names)

\* C10: on a list without repeated paths, the groups of one run are pairwise
\* disjoint and no path occurs twice inside a group.
C10_GroupsDisjoint ==
    NoRepeats(file_path_names) =>
        \A gs \in {result.groups, groups} :
            /\ \A k \in 1..Len(gs) : NoRepeats(gs[k])
            /\ \A j, k \in 1..Len(gs) :
                  j # k => Range(gs[j]) \cap Range(gs[k]) = {}

\* C10's case: the comparison pipeline has returned two groups.
C10_Witness == CompareDone /\ Len(result.groups) >= 2

====
